---- MODULE Spec2Model ----
(***************************************************************************)
(* Model of src/game/collision.rs (zenith): the CollisionPlugin systems    *)
(* collide_with_enemy_bullets (Pass A), collide_with_player_bullets        *)
(* (Pass B), despawn_outside, bound_player and wrap_stars, run frame by    *)
(* frame over a shared entity store with deferred despawn commands.        *)
(*                                                                         *)
(* Positions, window sizes and sprite extents are whole numbers of world   *)
(* units.  inner_bound and outer_bound return the exact half as a fraction *)
(* [num, den] after the f32 rounding of the sum or difference to 24 bits.  *)
(* The window and sprites of the modelled games have whole bounds, which   *)
(* the systems read with Whole.                                            *)
(*                                                                         *)
(* Spec runs the two damage passes and the reaper; SpecReap starts them    *)
(* at the despawn bound; SpecFrame runs the whole schedule with the        *)
(* player's movement and the stars; SpecGeometry applies the overlap test  *)
(* and the bound functions to drawn inputs.                                *)
(***************************************************************************)
EXTENDS Integers, Sequences, FiniteSets

\* ------------------------------------------------------------------ bounds
MaxHealth == 3
MaxDamage == 2
MaxDelta == 2

\* ------------------------------------------------------- program constants
\* The margin added to the outer bound by despawn_outside.
DespawnMargin == 12
\* Full duration of the player's InvulnTimer (crate::game::player).
InvulnDuration == 2
\* WindowSize resource (crate::game), read by despawn_outside.
WindowWidth == 4
WindowHeight == 4
\* f32 keeps 24 significant bits: integers up to 2^24 are exact.
F32Exact == 16777216

\* ---------------------------------------------------------------- entities
\* Entity handles.  Each handle has a fixed set of components.
PlayerIds == {1, 2}
EnemyBulletIds == {3, 4}
EnemyIds == {5, 6}
PlayerBulletIds == {7, 8}
BulletIds == EnemyBulletIds \cup PlayerBulletIds
StarIds == {9}
ActorIds == PlayerIds \cup EnemyIds
Ids == ActorIds \cup BulletIds \cup StarIds

\* Hitbox component: the radius of the circular collision boundary.
Hitbox(e) == 1

\* Entities carrying the DespawnOutside marker.
DespawnOutside == BulletIds \cup {5}
\* Entities carrying a SpriteSize component (sprite-sheet entities).
HasSpriteSize == PlayerIds \cup EnemyIds \cup EnemyBulletIds \cup {8}
\* Entities carrying a plain Sprite component.
HasSprite == PlayerBulletIds \cup StarIds
\* SpriteSize.width / SpriteSize.height of a sprite-sheet entity.
SpriteSizeOf(e) == [width |-> 2, height |-> 2]
\* Sprite.size and Transform.scale of a plain-sprite entity.
SpriteOf(e) == [x |-> 1, y |-> 1]
ScaleOf(e) == [x |-> 2, y |-> 2]

\* Positions the external movement systems can give to an entity.
PlayerPos == {<<0, 0>>}
EnemyBulletPos == {<<1, 1>>, <<2, 0>>, <<0, -16>>}
PlayerBulletPos == {<<1, 4>>, <<0, 4>>, <<0, 16>>}
\* Positions the player's movement system (crate::game::player) leaves the
\* player at: inside the window, and beyond the inner bound on each side.
PlayerMoves == {<<0, 0>>, <<2, -2>>, <<-2, 2>>}
\* Positions the starfield leaves a star at: below, on and above the outer
\* bound of the window height.
StarPos == {<<5, -4>>, <<5, -3>>, <<5, 4>>}
EnemyPos(e) == IF e = 5 THEN {<<0, 4>>} ELSE {<<2, 4>>, <<0, 16>>}

VARIABLES
    alive,      \* entities in the store
    pos,        \* Transform.translation (x, y) of every entity
    damage,     \* Damage component of every bullet
    health,     \* Health.current of every actor
    timer,      \* InvulnTimer of every player: time left of the countdown
    state,      \* State<GameState>: current state and scheduled transition
    commands,   \* despawn commands queued in this stage, not yet applied:
                \* how many each entity has (despawns commute, so the
                \* queue is kept as a multiset)
    pc,         \* "idle" (between frames), "update" (systems running), "panicked"
    ran,        \* systems that already ran in this frame
    delta,      \* Time::delta() of this frame
    frame,      \* history of this frame (what the systems did)
    hitCount,   \* history: damage applications made by each bullet so far
    sinceHit,   \* history: time ticked into the player's timer since the last
                \* damage application to the player (capped at the timer's
                \* duration), -1 before the first one
    probe       \* a call of the overlap test or of the bound functions: its
                \* arguments and, once applied, its results

vars == <<alive, pos, damage, health, timer, state, commands, pc, ran, delta,
          frame, hitCount, sinceHit, probe>>

\* ------------------------------------------------------------ pure helpers
Max(a, b) == IF a > b THEN a ELSE b
Min(a, b) == IF a < b THEN a ELSE b

\* All iteration orders of a finite set (query iteration order is unspecified).
Orders(S) ==
    {f \in [1..Cardinality(S) -> S] : \A i, j \in 1..Cardinality(S) : f[i] = f[j] => i = j}

Range(s) == {s[i] : i \in 1..Len(s)}

\* The store's own iteration order of a set of entities (ascending handles).
RECURSIVE StoreOrder(_)
StoreOrder(S) ==
    IF S = {} THEN <<>>
    ELSE LET m == CHOOSE x \in S : \A y \in S : x <= y
         IN <<m>> \o StoreOrder(S \ {m})

\* Vec2::distance_squared
DistanceSquared(p, q) == (p[1] - q[1]) * (p[1] - q[1]) + (p[2] - q[2]) * (p[2] - q[2])

\* Variant of the collision check that also takes touching circles.
CollidesInclusive(p, pr, q, qr) ==
    LET radius_sum == pr + qr
    IN DistanceSquared(p, q) <= radius_sum * radius_sum

\* The collision check of both passes: distance < radius_sum * radius_sum.
Collides(p, pr, q, qr) ==
    LET radius_sum == pr + qr
    IN DistanceSquared(p, q) < radius_sum * radius_sum

\* The spacing of f32 values at magnitude a >= 0.
RECURSIVE Ulp(_)
Ulp(a) == IF a < F32Exact THEN 1 ELSE 2 * Ulp(a \div 2)

\* An integer rounded to the nearest f32, ties to the even significand: the
\* result of an f32 addition or subtraction whose exact value is n.
F32(n) ==
    LET a == IF n < 0 THEN -n ELSE n
        u == Ulp(a)
        q == a \div u
        r == a % u
        m == IF 2 * r > u \/ (2 * r = u /\ q % 2 = 1) THEN (q + 1) * u ELSE q * u
    IN IF n < 0 THEN -m ELSE m

\* Variant of the inner bound without the halving.
InnerBoundUnhalved(dimension, sprite) == [num |-> F32(dimension - sprite), den |-> 1]

\* Get the inner bound for a sprite within a region.
inner_bound(dimension, sprite) == [num |-> F32(dimension - sprite), den |-> 2]

\* Get the outer bound for a sprite within a region.
outer_bound(dimension, sprite) == [num |-> F32(dimension + sprite), den |-> 2]

\* A fraction whose value is a whole number, as that number; no other
\* fraction has one.
Whole(r) == CHOOSE n \in {r.num \div r.den} : n * r.den = r.num

\* Health::damage: subtract, clamped at 0.
HealthDamage(current, amount) == Max(current - amount, 0)

\* InvulnTimer: tick / finished / reset.
TimerTick(t, d) == Max(t - d, 0)
TimerFinished(t) == t = 0
TimerReset(t) == InvulnDuration

\* State::set: fails when already in the state or when a transition is queued.
StateSetOk(s, target) == s.current # target /\ s.scheduled = "None"
StateSet(s, target) == [s EXCEPT !.scheduled = target]


\* -------------------------------------------------------------- Pass A
\* Variants of the vulnerability check: the value captured once after the
\* tick, before the loop; and a check that always passes.
VulnerableCapturedOnce(w) == TimerFinished(w.ticked)
VulnerableAlways(w) == TRUE

\* Line 99, "Check if currently vulnerable": read on the live timer for every
\* overlapping bullet, so after the reset of line 111.
Vulnerable(w) == TimerFinished(w.timer)

\* Variant of the damage application that leaves the timer as it is.
LandHitNoReset(w, p, b) ==
    LET h == HealthDamage(w.health, damage[b])
        lethal == h = 0
        ok == StateSetOk(w.state, "GameOver")
    IN [w EXCEPT !.sounds = @ + 1,
                 !.health = h,
                 !.hits = Append(@, [bullet |-> b, target |-> p]),
                 !.sets = IF lethal THEN @ + 1 ELSE @,
                 !.state = IF lethal /\ ok THEN StateSet(@, "GameOver") ELSE @,
                 !.panic = IF lethal /\ ~ok THEN "state_set" ELSE @]

\* Variant of the damage application that subtracts without clamping.
LandHitUnclamped(w, p, b) ==
    LET h == w.health - damage[b]
        lethal == h <= 0
        ok == StateSetOk(w.state, "GameOver")
    IN [w EXCEPT !.sounds = @ + 1,
                 !.health = h,
                 !.hits = Append(@, [bullet |-> b, target |-> p]),
                 !.sets = IF lethal THEN @ + 1 ELSE @,
                 !.state = IF lethal /\ ok THEN StateSet(@, "GameOver") ELSE @,
                 !.panic = IF lethal /\ ~ok THEN "state_set" ELSE @,
                 !.timer = IF lethal /\ ~ok THEN @ ELSE TimerReset(@)]

\* Lines 100-111: sound, damage, terminal transition, timer reset.  The
\* unwrap of line 107 panics when State::set fails, before the reset.
LandHit(w, p, b) ==
    LET h == HealthDamage(w.health, damage[b])
        lethal == h = 0
        ok == StateSetOk(w.state, "GameOver")
    IN [w EXCEPT !.sounds = @ + 1,
                 !.health = h,
                 !.hits = Append(@, [bullet |-> b, target |-> p]),
                 !.sets = IF lethal THEN @ + 1 ELSE @,
                 !.state = IF lethal /\ ok THEN StateSet(@, "GameOver") ELSE @,
                 !.panic = IF lethal /\ ~ok THEN "state_set" ELSE @,
                 !.timer = IF lethal /\ ~ok THEN @ ELSE TimerReset(@)]

\* Variant of the loop body that consumes a bullet only when it deals damage.
HitPlayerDespawnOnDamage(w, p, b) ==
    IF Collides(pos[p], Hitbox(p), pos[b], Hitbox(b)) /\ Vulnerable(w)
    THEN LandHit([w EXCEPT !.commands = Append(@, [by |-> "A", entity |-> b])], p, b)
    ELSE w

\* Lines 89-113: the body of the bullet loop for bullet b and player p.
HitPlayer(w, p, b) ==
    IF Collides(pos[p], Hitbox(p), pos[b], Hitbox(b))
    THEN LET w1 == [w EXCEPT !.commands = Append(@, [by |-> "A", entity |-> b]),
                             !.seen = Append(@, [bullet |-> b,
                                                 vulnerable |-> Vulnerable(w)])]
         IN IF Vulnerable(w1) THEN LandHit(w1, p, b) ELSE w1
    ELSE w

\* Line 88: for (entity, damage, hitbox, transform) in bullets.iter().
RECURSIVE EnemyBulletLoop(_, _, _, _)
EnemyBulletLoop(w, p, order, i) ==
    IF i > Len(order) \/ w.panic # "none"
    THEN w
    ELSE EnemyBulletLoop(HitPlayer(w, p, order[i]), p, order, i + 1)

\* Variant of the pass that does not advance the timer.
PassANoTick(p, order) ==
    LET w0 == [health |-> health[p], timer |-> timer[p], ticked |-> timer[p],
               state |-> state, commands |-> <<>>, hits |-> <<>>, seen |-> <<>>,
               sounds |-> 0, sets |-> 0, panic |-> "none"]
    IN EnemyBulletLoop(w0, p, order, 1)

\* Lines 86-114 for the single player p: tick the timer, then the loop.
PassA(p, order) ==
    LET ticked == TimerTick(timer[p], delta)
        w0 == [health |-> health[p], timer |-> ticked, ticked |-> ticked,
               state |-> state, commands |-> <<>>, hits |-> <<>>, seen |-> <<>>,
               sounds |-> 0, sets |-> 0, panic |-> "none"]
    IN EnemyBulletLoop(w0, p, order, 1)

\* -------------------------------------------------------------- Pass B
\* Variants of the inner loop body: an enemy takes one hit per pass; a bullet
\* whose despawn was already issued is skipped.
HitEnemyOncePerPass(w, e, b) ==
    IF /\ Collides(pos[e], Hitbox(e), pos[b], Hitbox(b))
       /\ \A i \in 1..Len(w.hits) : w.hits[i].target # e
    THEN [w EXCEPT !.commands = Append(@, [by |-> "B", entity |-> b]),
                   !.health[e] = HealthDamage(@, damage[b]),
                   !.hits = Append(@, [bullet |-> b, target |-> e])]
    ELSE IF Collides(pos[e], Hitbox(e), pos[b], Hitbox(b))
    THEN [w EXCEPT !.commands = Append(@, [by |-> "B", entity |-> b])]
    ELSE w
HitEnemySkipDespawned(w, e, b) ==
    IF /\ Collides(pos[e], Hitbox(e), pos[b], Hitbox(b))
       /\ \A i \in 1..Len(w.commands) : w.commands[i].entity # b
    THEN [w EXCEPT !.commands = Append(@, [by |-> "B", entity |-> b]),
                   !.health[e] = HealthDamage(@, damage[b]),
                   !.hits = Append(@, [bullet |-> b, target |-> e])]
    ELSE w

\* Lines 124-133: the body of the inner loop for enemy e and bullet b.
HitEnemy(w, e, b) ==
    IF Collides(pos[e], Hitbox(e), pos[b], Hitbox(b))
    THEN [w EXCEPT !.commands = Append(@, [by |-> "B", entity |-> b]),
                   !.health[e] = HealthDamage(@, damage[b]),
                   !.hits = Append(@, [bullet |-> b, target |-> e])]
    ELSE w

\* Line 123: for (entity, damage, hitbox, transform) in bullets.iter().
RECURSIVE PlayerBulletLoop(_, _, _, _)
PlayerBulletLoop(w, e, order, i) ==
    IF i > Len(order)
    THEN w
    ELSE PlayerBulletLoop(HitEnemy(w, e, order[i]), e, order, i + 1)

\* Line 122: for (mut health, enemy_hitbox, enemy_transform) in enemies.iter_mut().
RECURSIVE EnemyLoop(_, _, _, _)
EnemyLoop(w, enemies, bullets, i) ==
    IF i > Len(enemies)
    THEN w
    ELSE EnemyLoop(PlayerBulletLoop(w, enemies[i], bullets, 1), enemies, bullets, i + 1)

PassB(enemies, bullets) ==
    EnemyLoop([health |-> health, commands |-> <<>>, hits |-> <<>>],
              enemies, bullets, 1)

\* ------------------------------------------------------ despawn_outside
\* Lines 147-150 / 159-162: the position is past the bound on either axis.
\* Variant of the test that also takes an entity exactly on the bound.
OutsideInclusive(t, width, height) ==
    t[1] >= width \/ t[1] <= -width \/ t[2] >= height \/ t[2] <= -height

\* Lines 147-150: the position is beyond the bound on some axis.
Outside(t, width, height) ==
    t[1] > width \/ t[1] < -width \/ t[2] > height \/ t[2] < -height

\* Lines 145-153: one entity of the sprite_sheets query.
ReapSpriteSheet(q, e) ==
    LET width == Whole(outer_bound(WindowWidth, SpriteSizeOf(e).width)) + DespawnMargin
        height == Whole(outer_bound(WindowHeight, SpriteSizeOf(e).height)) + DespawnMargin
    IN IF Outside(pos[e], width, height)
       THEN Append(q, [by |-> "D", entity |-> e])
       ELSE q

\* Lines 157-165: one entity of the sprites query.
ReapSprite(q, e) ==
    LET width == Whole(outer_bound(WindowWidth, SpriteOf(e).x * ScaleOf(e).x)) + DespawnMargin
        height == Whole(outer_bound(WindowHeight, SpriteOf(e).y * ScaleOf(e).y)) + DespawnMargin
    IN IF Outside(pos[e], width, height)
       THEN Append(q, [by |-> "D", entity |-> e])
       ELSE q

RECURSIVE SpriteSheetLoop(_, _, _)
SpriteSheetLoop(q, order, i) ==
    IF i > Len(order) THEN q
    ELSE SpriteSheetLoop(ReapSpriteSheet(q, order[i]), order, i + 1)

RECURSIVE SpriteLoop(_, _, _)
SpriteLoop(q, order, i) ==
    IF i > Len(order) THEN q
    ELSE SpriteLoop(ReapSprite(q, order[i]), order, i + 1)

\* Lines 144-166: the sprite_sheets loop, then the sprites loop.
DespawnOutsidePass(sheets, sprites) ==
    SpriteLoop(SpriteSheetLoop(<<>>, sheets, 1), sprites, 1)

\* ------------------------------------------------- command application
\* Variant of the Despawn command that faults on an entity not in the store.
DespawnStrict(w, e) ==
    IF e \in w.store
    THEN [w EXCEPT !.store = @ \ {e}, !.removed = Append(@, e)]
    ELSE [w EXCEPT !.fault = TRUE]

\* The Despawn command: removes the entity when the store holds it; when it
\* does not (already despawned), the command only logs and changes nothing.
Despawn(w, e) ==
    IF e \in w.store
    THEN [w EXCEPT !.store = @ \ {e}, !.removed = Append(@, e)]
    ELSE [w EXCEPT !.noops = @ + 1]

\* The stage applies the queued commands in order once its systems ran.
RECURSIVE ApplyCommands(_, _, _)
ApplyCommands(w, q, i) ==
    IF i > Len(q) \/ w.fault
    THEN w
    ELSE ApplyCommands(Despawn(w, q[i]), q, i + 1)

\* The queue after a system's commands q were added to it.
Enqueue(c, q) ==
    [e \in Ids |-> c[e] + Cardinality({i \in 1..Len(q) : q[i].entity = e})]

\* The queued commands as the sequence the stage applies.
RECURSIVE QueueSeq(_, _, _)
QueueSeq(c, e, n) ==
    IF e \notin Ids THEN <<>>
    ELSE IF n < c[e] THEN <<e>> \o QueueSeq(c, e, n + 1)
    ELSE QueueSeq(c, e + 1, 0)

NoCommands == [e \in Ids |-> 0]

CountHits(hits, b) == Cardinality({i \in 1..Len(hits) : hits[i].bullet = b})


\* Positions the external movement can give to entity e.
PosOf(e) ==
    IF e \in PlayerIds THEN PlayerPos
    ELSE IF e \in EnemyBulletIds THEN EnemyBulletPos
    ELSE IF e \in PlayerBulletIds THEN PlayerBulletPos
    ELSE IF e \in StarIds THEN StarPos
    ELSE EnemyPos(e)

\* No call of a geometry function is being examined.
NoProbe == [op |-> "none", args |-> <<>>, result |-> <<>>]

NoFrame ==
    [hits |-> {}, sounds |-> 0, sets |-> 0, byA |-> {}, byD |-> {}, seen |-> {},
     gap |-> -1, since0 |-> -1, queue |-> NoCommands,
     before |-> {}, removed |-> <<>>, noops |-> 0, panic |-> "none",
     state0 |-> "None", preP |-> <<>>, preW |-> <<>>,
     health0 |-> [e \in ActorIds |-> 0], timer0 |-> [e \in PlayerIds |-> 0]]

\* ------------------------------------------------------------------- Init
\* The store after the spawn systems ran: zero, one or two players (one is
\* the supported setup), two enemies (enemy 6 with one point of health left),
\* two bullets of each faction.
Init ==
    /\ \E players \in {{}, {1}, {1, 2}} : alive = players \cup EnemyIds \cup BulletIds
    /\ \E eb \in [EnemyBulletIds -> EnemyBulletPos] :
       \E pb \in [PlayerBulletIds -> PlayerBulletPos] :
       \E en \in EnemyPos(6) :
          pos = [e \in Ids |->
                   IF e \in EnemyBulletIds THEN eb[e]
                   ELSE IF e \in PlayerBulletIds THEN pb[e]
                   ELSE IF e = 6 THEN en
                   ELSE CHOOSE p \in PosOf(e) : TRUE]
    /\ damage = [b \in BulletIds |-> IF b \in {3, 7} THEN 1 ELSE MaxDamage]
    /\ \E h \in 1..MaxHealth :
          health = [e \in ActorIds |->
                      IF e = 1 THEN h ELSE IF e = 6 THEN 1 ELSE MaxHealth]
    /\ \E t \in {0, InvulnDuration} :
          /\ timer = [e \in PlayerIds |-> IF e = 1 THEN t ELSE 0]
          /\ sinceHit = IF t = 0 THEN -1 ELSE 0
    /\ state = [current |-> "Playing", scheduled |-> "None"]
    /\ commands = NoCommands
    /\ pc = "idle"
    /\ ran = {}
    /\ delta = 1
    /\ frame = NoFrame
    /\ hitCount = [b \in BulletIds |-> 0]
    /\ probe = NoProbe

\* ---------------------------------------------------------------- actions
\* The frame driver starts a frame: the clock supplies the elapsed time, and
\* the external movement systems have moved the stars and at most one
\* bullet since the last run of the collision systems.
BeginFrame ==
    /\ pc = "idle"
    /\ \E d \in 1..MaxDelta : delta' = d
    /\ \E stars \in [alive \cap StarIds -> StarPos] :
          \/ pos' = [x \in Ids |-> IF x \in DOMAIN stars THEN stars[x] ELSE pos[x]]
          \/ \E e \in alive \cap BulletIds : \E p \in PosOf(e) :
                /\ p # pos[e]
                /\ pos' = [x \in Ids |-> IF x \in DOMAIN stars THEN stars[x]
                                         ELSE IF x = e THEN p ELSE pos[x]]
    /\ pc' = "update"
    /\ ran' = {}
    /\ frame' = [NoFrame EXCEPT !.health0 = health,
                                !.timer0 = timer,
                                !.since0 = sinceHit,
                                !.state0 = state.current,
                                !.before = alive]
    /\ UNCHANGED <<alive, damage, health, timer, state, commands, hitCount,
                   sinceHit, probe>>

\* Variant of the run criterion that lets the set run in every state.
OnUpdateAlways(s) == TRUE

\* SystemSet::on_update(s): the set runs in the frames whose state is s.
on_update(s) == state.current = s

\* Variant of the player lookup that takes the first player of the query.
FirstPlayer(players) == players # {}

\* Lines 83-84: player.single_mut() succeeds with exactly one player.
SinglePlayer(players) == Cardinality(players) = 1

\* collide_with_enemy_bullets, scheduled on_update(GameState::Playing).
CollideWithEnemyBullets ==
    /\ pc = "update"
    /\ "A" \notin ran
    /\ on_update("Playing")
    /\ ran' = ran \cup {"A"}
    /\ LET players == alive \cap PlayerIds
       IN IF ~SinglePlayer(players)
          THEN \* single_mut().expect("expected a single player") panics
               /\ pc' = "panicked"
               /\ frame' = [frame EXCEPT !.panic = "expected a single player"]
               /\ UNCHANGED <<health, timer, state, commands, hitCount, sinceHit>>
          ELSE \E order \in Orders(alive \cap EnemyBulletIds) :
               LET p == CHOOSE x \in players : TRUE
                   w == PassA(p, order)
               IN /\ health' = [health EXCEPT ![p] = w.health]
                  /\ timer' = [timer EXCEPT ![p] = w.timer]
                  /\ state' = w.state
                  /\ commands' = Enqueue(commands, w.commands)
                  /\ pc' = IF w.panic = "none" THEN pc ELSE "panicked"
                  /\ frame' = [frame EXCEPT !.hits = @ \cup Range(w.hits),
                                            !.sounds = @ + w.sounds,
                                            !.sets = @ + w.sets,
                                            !.byA = {w.commands[i].entity :
                                                       i \in 1..Len(w.commands)},
                                            !.seen = Range(w.seen),
                                            !.gap = IF w.sounds > 0 /\ sinceHit # -1
                                                    THEN Min(sinceHit + delta,
                                                             InvulnDuration)
                                                    ELSE -1,
                                            !.panic = w.panic]
                  /\ hitCount' = [b \in BulletIds |-> hitCount[b] + CountHits(w.hits, b)]
                  /\ sinceHit' = IF w.sounds > 0 THEN 0
                                 ELSE IF sinceHit = -1 THEN -1
                                 ELSE Min(sinceHit + delta, InvulnDuration)
    /\ UNCHANGED <<alive, pos, damage, delta, probe>>

\* collide_with_player_bullets, scheduled on_update(GameState::Playing).
CollideWithPlayerBullets ==
    /\ pc = "update"
    /\ "B" \notin ran
    /\ on_update("Playing")
    /\ ran' = ran \cup {"B"}
    /\ \E enemies \in Orders(alive \cap EnemyIds) :
       \E bullets \in Orders(alive \cap PlayerBulletIds) :
          LET w == PassB(enemies, bullets)
          IN /\ health' = w.health
             /\ commands' = Enqueue(commands, w.commands)
             /\ frame' = [frame EXCEPT !.hits = @ \cup Range(w.hits)]
             /\ hitCount' = [b \in BulletIds |-> hitCount[b] + CountHits(w.hits, b)]
    /\ UNCHANGED <<alive, pos, damage, timer, state, pc, delta, sinceHit, probe>>

\* despawn_outside, scheduled in every game state.
DespawnOutsideSystem ==
    /\ pc = "update"
    /\ "D" \notin ran
    /\ ran' = ran \cup {"D"}
    /\ LET sheets == StoreOrder(alive \cap DespawnOutside \cap HasSpriteSize)
           sprites == StoreOrder(alive \cap DespawnOutside \cap HasSprite)
           q == DespawnOutsidePass(sheets, sprites)
       IN /\ commands' = Enqueue(commands, q)
          /\ frame' = [frame EXCEPT !.byD = {q[i].entity : i \in 1..Len(q)}]
    /\ UNCHANGED <<alive, pos, damage, health, timer, state, pc, delta, hitCount,
                   sinceHit, probe>>

\* The systems scheduled for this frame: the Playing set only in Playing.
Scheduled == IF on_update("Playing") THEN {"A", "B", "D"} ELSE {"D"}

\* End of the stage, once the systems sched have run: the queued commands
\* are applied to the store, then the scheduled state transition takes effect.
EndOfStage(sched) ==
    /\ pc = "update"
    /\ ran = sched
    /\ LET w == ApplyCommands([store |-> alive, removed |-> <<>>, noops |-> 0,
                               fault |-> FALSE], QueueSeq(commands, 1, 0), 1)
       IN /\ alive' = w.store
          /\ pc' = IF w.fault THEN "panicked" ELSE "idle"
          /\ frame' = [frame EXCEPT !.queue = commands,
                                    !.removed = w.removed,
                                    !.noops = w.noops,
                                    !.panic = IF w.fault THEN "despawn" ELSE @]
    /\ commands' = NoCommands
    /\ state' = IF state.scheduled # "None"
                THEN [current |-> state.scheduled, scheduled |-> "None"]
                ELSE state
    /\ UNCHANGED <<pos, damage, health, timer, ran, delta, hitCount, sinceHit,
                   probe>>

EndFrame == EndOfStage(Scheduled)

Next ==
    \/ BeginFrame
    \/ CollideWithEnemyBullets
    \/ CollideWithPlayerBullets
    \/ DespawnOutsideSystem
    \/ EndFrame

Spec == Init /\ [][Next]_vars

\* Games whose marked bullets 3 (sprite sheet) and 7 (plain sprite) start on
\* or one unit beyond the despawn bound of each side of the window.
Edge == Whole(outer_bound(WindowWidth, SpriteSizeOf(3).width)) + DespawnMargin
EdgePos ==
    {<<Edge, 0>>, <<Edge + 1, 0>>, <<-Edge, 0>>, <<-Edge - 1, 0>>,
     <<0, Edge>>, <<0, Edge + 1>>, <<0, -Edge>>, <<0, -Edge - 1>>,
     <<Edge, -Edge>>, <<0, 0>>}
InitReap ==
    /\ alive = {1} \cup EnemyIds \cup BulletIds
    /\ \E p3 \in EdgePos : \E p7 \in EdgePos : \E en \in EnemyPos(6) :
          pos = [e \in Ids |->
                   IF e = 3 THEN p3
                   ELSE IF e = 7 THEN p7
                   ELSE IF e = 6 THEN en
                   ELSE CHOOSE p \in PosOf(e) : TRUE]
    /\ damage = [b \in BulletIds |-> IF b \in {3, 7} THEN 1 ELSE MaxDamage]
    /\ health = [e \in ActorIds |-> MaxHealth]
    /\ timer = [e \in PlayerIds |-> 0]
    /\ sinceHit = -1
    /\ state = [current |-> "Playing", scheduled |-> "None"]
    /\ commands = NoCommands
    /\ pc = "idle"
    /\ ran = {}
    /\ delta = 1
    /\ frame = NoFrame
    /\ hitCount = [b \in BulletIds |-> 0]
    /\ probe = NoProbe
SpecReap == InitReap /\ [][Next]_vars

\* ------------------------------------------------- the whole schedule
\* Variant of the clamp that bounds only the upper side.
ClampAxisUpper(x, w) == Min(x, w)

\* Lines 69-70: x.min(w).max(-w).
ClampAxis(x, w) == Max(Min(x, w), -w)

\* Lines 67-70 for one player: each axis clamped to its inner bound.
BoundPlayer(t, e) ==
    LET width == Whole(inner_bound(WindowWidth, SpriteSizeOf(e).width))
        height == Whole(inner_bound(WindowHeight, SpriteSizeOf(e).height))
    IN <<ClampAxis(t[1], width), ClampAxis(t[2], height)>>

\* Variant of the wrap that also moves a star exactly on the lower bound.
WrapStarInclusive(t, e) ==
    LET height == Whole(outer_bound(WindowHeight, SpriteOf(e).y * ScaleOf(e).y))
    IN IF t[2] <= -height THEN <<t[1], height>> ELSE t

\* Lines 171-174 for one star.
WrapStar(t, e) ==
    LET height == Whole(outer_bound(WindowHeight, SpriteOf(e).y * ScaleOf(e).y))
    IN IF t[2] < -height THEN <<t[1], height>> ELSE t

\* The system labelled "move_player" (crate::game::player), part of the
\* Playing set: it leaves the player anywhere in PlayerMoves.
MovePlayer ==
    /\ pc = "update"
    /\ "M" \notin ran
    /\ on_update("Playing")
    /\ ran' = ran \cup {"M"}
    /\ \E t \in PlayerMoves :
          pos' = [e \in Ids |-> IF e \in alive \cap PlayerIds THEN t ELSE pos[e]]
    /\ UNCHANGED <<alive, damage, health, timer, state, commands, pc, delta,
                   frame, hitCount, sinceHit, probe>>

\* bound_player, scheduled on_update(GameState::Playing), after "move_player".
BoundPlayerSystem ==
    /\ pc = "update"
    /\ "P" \notin ran
    /\ "M" \in ran
    /\ on_update("Playing")
    /\ ran' = ran \cup {"P"}
    /\ pos' = [e \in Ids |->
                 IF e \in alive \cap PlayerIds \cap HasSpriteSize
                 THEN BoundPlayer(pos[e], e) ELSE pos[e]]
    /\ frame' = [frame EXCEPT !.preP = pos]
    /\ UNCHANGED <<alive, damage, health, timer, state, commands, pc, delta,
                   hitCount, sinceHit, probe>>

\* wrap_stars, scheduled in every game state.
WrapStarsSystem ==
    /\ pc = "update"
    /\ "W" \notin ran
    /\ ran' = ran \cup {"W"}
    /\ pos' = [e \in Ids |->
                 IF e \in alive \cap StarIds \cap HasSprite
                 THEN WrapStar(pos[e], e) ELSE pos[e]]
    /\ frame' = [frame EXCEPT !.preW = pos]
    /\ UNCHANGED <<alive, damage, health, timer, state, commands, pc, delta,
                   hitCount, sinceHit, probe>>

\* All systems of the plugin, with the movement system bound_player follows.
ScheduledAll ==
    IF on_update("Playing") THEN {"M", "P", "A", "B", "D", "W"} ELSE {"D", "W"}

EndFrameAll == EndOfStage(ScheduledAll)

\* A game with one player one hit from death, two enemy
\* bullets, one enemy, one player bullet and one star.
InitFrame ==
    /\ alive = {1, 3, 4, 6, 7, 9}
    /\ \E p3 \in EnemyBulletPos : \E p9 \in StarPos :
          pos = [e \in Ids |->
                   IF e = 3 THEN p3
                   ELSE IF e = 9 THEN p9
                   ELSE IF e = 6 THEN <<2, 4>>
                   ELSE CHOOSE p \in PosOf(e) : TRUE]
    /\ damage = [b \in BulletIds |-> IF b \in {3, 7} THEN 1 ELSE MaxDamage]
    /\ health = [e \in ActorIds |-> IF e = 1 THEN 1 ELSE MaxHealth]
    /\ timer = [e \in PlayerIds |-> 0]
    /\ sinceHit = -1
    /\ state = [current |-> "Playing", scheduled |-> "None"]
    /\ commands = NoCommands
    /\ pc = "idle"
    /\ ran = {}
    /\ delta = 1
    /\ frame = NoFrame
    /\ hitCount = [b \in BulletIds |-> 0]
    /\ probe = NoProbe

NextFrame ==
    \/ BeginFrame
    \/ MovePlayer
    \/ BoundPlayerSystem
    \/ CollideWithEnemyBullets
    \/ CollideWithPlayerBullets
    \/ DespawnOutsideSystem
    \/ WrapStarsSystem
    \/ EndFrameAll

SpecFrame == InitFrame /\ [][NextFrame]_vars

\* ------------------------------------------------- geometry functions
\* Inputs of the overlap test: centres at distance 0, 5 and more, radii
\* whose sum is below, equal to and above 5.
ProbeCentres == {<<0, 0>>, <<1, -2>>}
ProbeTargets == {<<3, 4>>, <<0, 5>>, <<4, 2>>, <<-3, -4>>, <<1, -2>>, <<4, 4>>}
ProbeRadii == {1, 2, 3}
\* Inputs of the bound functions: window and sprite sizes of the game's
\* scale, with even and odd sums, and dimensions at and beyond the integers
\* f32 holds exactly.
ProbeDimensions == {0, 1, 3, 4, 640, F32Exact - 1, F32Exact, 2 * F32Exact}
ProbeExtents == {0, 1, 2, 4}

ProbeInputs ==
    {[op |-> "overlap", args |-> <<p, pr, q, qr>>, result |-> <<>>] :
        p \in ProbeCentres, pr \in ProbeRadii, q \in ProbeTargets, qr \in ProbeRadii}
    \cup
    {[op |-> "bounds", args |-> <<d, e>>, result |-> <<>>] :
        d \in ProbeDimensions, e \in ProbeExtents}

InitGeometry ==
    /\ probe \in ProbeInputs
    /\ alive = {}
    /\ pos = [e \in Ids |-> CHOOSE p \in PosOf(e) : TRUE]
    /\ damage = [b \in BulletIds |-> 1]
    /\ health = [e \in ActorIds |-> MaxHealth]
    /\ timer = [e \in PlayerIds |-> 0]
    /\ sinceHit = -1
    /\ state = [current |-> "Playing", scheduled |-> "None"]
    /\ commands = NoCommands
    /\ pc = "idle"
    /\ ran = {}
    /\ delta = 1
    /\ frame = NoFrame
    /\ hitCount = [b \in BulletIds |-> 0]

\* Lines 90-95 and 125-130 on the drawn hitboxes, in both argument orders.
ApplyOverlapTest ==
    /\ probe.op = "overlap" /\ probe.result = <<>>
    /\ LET a == probe.args
       IN probe' = [probe EXCEPT !.result =
                        <<Collides(a[1], a[2], a[3], a[4]),
                          Collides(a[3], a[4], a[1], a[2])>>]
    /\ UNCHANGED <<alive, pos, damage, health, timer, state, commands, pc, ran,
                   delta, frame, hitCount, sinceHit>>

\* inner_bound and outer_bound on the drawn dimension and extent.
ApplyBounds ==
    /\ probe.op = "bounds" /\ probe.result = <<>>
    /\ LET a == probe.args
       IN probe' = [probe EXCEPT !.result =
                        <<inner_bound(a[1], a[2]), outer_bound(a[1], a[2])>>]
    /\ UNCHANGED <<alive, pos, damage, health, timer, state, commands, pc, ran,
                   delta, frame, hitCount, sinceHit>>

NextGeometry == ApplyOverlapTest \/ ApplyBounds

SpecGeometry == InitGeometry /\ [][NextGeometry]_vars


\* ================================================================ claims
\* Pass A ran in this frame with the single player 1 and did not panic.
PassARan == "A" \in ran /\ alive \cap PlayerIds = {1} /\ frame.panic = "none"
PassBRan == "B" \in ran
\* The frame is over: its commands were applied.
FrameDone == pc = "idle" /\ ran # {}

\* Enemy bullets in the store at the start of the frame that overlap player 1.
OverlapA ==
    {b \in frame.before \cap EnemyBulletIds :
        DistanceSquared(pos[1], pos[b]) < (Hitbox(1) + Hitbox(b)) * (Hitbox(1) + Hitbox(b))}
\* Player bullets in the store at the start of the frame that overlap enemy e.
OverlapB(e) ==
    {b \in frame.before \cap PlayerBulletIds :
        DistanceSquared(pos[e], pos[b]) < (Hitbox(e) + Hitbox(b)) * (Hitbox(e) + Hitbox(b))}

\* The player's timer as the bullet loop of this frame first saw it.
TimerAfterTick == IF frame.timer0[1] > delta THEN frame.timer0[1] - delta ELSE 0
VulnerableAtLoop == TimerAfterTick = 0

PlayerHits == {h \in frame.hits : h.target \in PlayerIds}

RECURSIVE SumDamage(_)
SumDamage(S) ==
    IF S = {} THEN 0
    ELSE LET b == CHOOSE x \in S : TRUE IN damage[b] + SumDamage(S \ {b})

\* C1: in one frame at most one damage application lands on the player,
\* whatever the number of overlapping enemy bullets and the iteration order;
\* when the player is vulnerable at the start of the loop and two or more
\* bullets overlap, exactly one of them changes health (by its own damage).
C1_OneHitPerFrame ==
    /\ Cardinality(PlayerHits) <= 1
    /\ frame.sounds <= 1
    /\ (PassARan /\ VulnerableAtLoop /\ Cardinality(OverlapA) >= 2)
        => \E b \in OverlapA :
              /\ PlayerHits = {[bullet |-> b, target |-> 1]}
              /\ frame.sounds = 1
              /\ health[1] = IF frame.health0[1] > damage[b]
                             THEN frame.health0[1] - damage[b] ELSE 0
C1_Witness ==
    /\ PassARan /\ VulnerableAtLoop /\ Cardinality(OverlapA) >= 2
    /\ Cardinality(PlayerHits) = 1
    /\ health[1] > 0 /\ health[1] < frame.health0[1]

\* The player is vulnerable at the loop and the overlapping enemy bullets of
\* the frame are two or more, all with damage at least the player's health.
LethalOverlap ==
    /\ "A" \in ran /\ alive \cap PlayerIds = {1}
    /\ VulnerableAtLoop
    /\ Cardinality(OverlapA) >= 2
    /\ \A b \in OverlapA : damage[b] >= frame.health0[1]
\* C2: when the player is vulnerable and the enemy bullets overlapping it in
\* a frame are two or more, each with damage at least the player's health,
\* health ends at 0, the transition to GameOver is requested exactly once
\* and Pass A does not panic on the unwrap of the state setter.
C2_TerminalOnce ==
    LethalOverlap =>
        /\ health[1] = 0
        /\ frame.sets = 1
        /\ frame.panic = "none" /\ pc # "panicked"
        /\ \/ state = [current |-> "Playing", scheduled |-> "GameOver"]
           \/ state = [current |-> "GameOver", scheduled |-> "None"]
C2_Witness == LethalOverlap /\ frame.sets = 1 /\ state.current = "GameOver"

\* C3: every enemy bullet overlapping the player in a frame is destroyed in
\* that frame, vulnerable or not, damaging or not; Pass A issues no despawn
\* for an enemy bullet that does not overlap the player.
C3_OverlapDestroyed ==
    /\ PassARan => frame.byA = OverlapA
    /\ (PassARan /\ FrameDone) => OverlapA \cap alive = {}
C3_Witness ==
    /\ PassARan /\ FrameDone
    /\ ~VulnerableAtLoop
    /\ \E b, c \in EnemyBulletIds :
          b \in OverlapA /\ b \notin alive /\ c \notin OverlapA /\ c \in alive

\* C4: while the player is invulnerable after this frame's tick, Pass A with
\* any number of overlapping bullets leaves health unchanged, does not reset
\* the timer, plays no sound and requests no transition; it only ticks the
\* timer and destroys the overlapping bullets.
C4_InvulnerableNoDamage ==
    (PassARan /\ ~VulnerableAtLoop) =>
        /\ health[1] = frame.health0[1]
        /\ timer[1] = TimerAfterTick
        /\ frame.sounds = 0
        /\ frame.sets = 0
        /\ PlayerHits = {}
        /\ state = [current |-> "Playing", scheduled |-> "None"]
        /\ frame.byA = OverlapA
C4_Witness ==
    /\ PassARan /\ ~VulnerableAtLoop
    /\ Cardinality(OverlapA) = 2
    /\ timer[1] < frame.timer0[1]
    /\ FrameDone /\ OverlapA \cap alive = {}


\* C5: in Pass B every player bullet overlapping an enemy applies its damage
\* independently: the enemy's health drops by the sum of their damages,
\* clamped at 0, and every overlapping bullet is destroyed in that frame.
C5_CumulativeDamage ==
    /\ PassBRan =>
          \A e \in frame.before \cap EnemyIds :
              /\ health[e] = IF frame.health0[e] > SumDamage(OverlapB(e))
                             THEN frame.health0[e] - SumDamage(OverlapB(e)) ELSE 0
              /\ \A b \in OverlapB(e) : [bullet |-> b, target |-> e] \in frame.hits
    /\ (PassBRan /\ FrameDone) =>
          \A e \in frame.before \cap EnemyIds : OverlapB(e) \cap alive = {}
C5_Witness ==
    /\ PassBRan /\ FrameDone
    /\ \E e \in EnemyIds :
          /\ Cardinality(OverlapB(e)) = 2
          /\ frame.health0[e] >= SumDamage(OverlapB(e))
          /\ health[e] = frame.health0[e] - SumDamage(OverlapB(e))
          /\ OverlapB(e) \cap alive = {}

\* C6: a player bullet overlapping several enemies in one frame applies its
\* damage to every one of them, whatever the enemy iteration order, although
\* its despawn was issued at the first overlap.
C6_BulletHitsAllOverlapped ==
    PassBRan =>
        \A b \in frame.before \cap PlayerBulletIds :
        \A e \in frame.before \cap EnemyIds :
            b \in OverlapB(e) =>
                /\ [bullet |-> b, target |-> e] \in frame.hits
                /\ health[e] <= (IF frame.health0[e] > damage[b]
                                 THEN frame.health0[e] - damage[b] ELSE 0)
                /\ commands[b] + frame.queue[b] >= 1
C6_Witness ==
    /\ PassBRan
    /\ \E b \in PlayerBulletIds :
          /\ \A e \in EnemyIds : b \in OverlapB(e) /\ health[e] < frame.health0[e]
          /\ \A c \in PlayerBulletIds \ {b} : \A e \in EnemyIds : c \notin OverlapB(e)
          /\ hitCount[b] = 2

\* C7: a bullet is single-hit: over its whole lifetime, across frames and
\* both passes, it applies its damage at most once.
C7_SingleHit == \A b \in BulletIds : hitCount[b] <= 1

\* C8: in every frame Pass A completes before Pass B starts.
C8_PassABeforePassB == "B" \in ran => "A" \in ran

\* C9: with zero or several players Pass A panics before it ticks a timer,
\* destroys a bullet, changes health or requests a transition; with exactly
\* one player it never raises this failure.
C9_SinglePlayerOrAbort ==
    "A" \in ran =>
        IF Cardinality(frame.before \cap PlayerIds) = 1
        THEN frame.panic # "expected a single player"
        ELSE /\ pc = "panicked"
             /\ frame.panic = "expected a single player"
             /\ timer = frame.timer0
             /\ \A p \in PlayerIds : health[p] = frame.health0[p]
             /\ frame.byA = {} /\ frame.sounds = 0 /\ frame.sets = 0
             /\ \A b \in EnemyBulletIds : hitCount[b] = 0
             /\ alive = frame.before
             /\ state = [current |-> "Playing", scheduled |-> "None"]
C9_Witness ==
    /\ "A" \in ran /\ pc = "panicked"
    /\ Cardinality(alive \cap PlayerIds) = 2
    /\ OverlapA # {}
    /\ frame.timer0[1] > 0

\* Entities with a despawn command in the frame's queue, and the number of
\* commands beyond the first one of each.
QueuedEntities == {e \in Ids : frame.queue[e] > 0}
RECURSIVE SumExtra(_)
SumExtra(S) ==
    IF S = {} THEN 0
    ELSE LET e == CHOOSE x \in S : TRUE IN (frame.queue[e] - 1) + SumExtra(S \ {e})
\* C10: an entity whose despawn is issued more than once in a frame is
\* removed exactly once; the later despawns are no-ops that raise no error,
\* and no entity without a despawn command is removed.
C10_DoubleDespawnTolerated ==
    /\ frame.panic # "despawn"
    /\ FrameDone =>
          /\ alive = frame.before \ QueuedEntities
          /\ Range(frame.removed) = QueuedEntities
          /\ Len(frame.removed) = Cardinality(QueuedEntities)
          /\ frame.noops = SumExtra(QueuedEntities)
C10_Witness ==
    /\ FrameDone
    /\ \E e \in PlayerBulletIds :
          /\ frame.queue[e] >= 3
          /\ [bullet |-> e, target |-> 6] \in frame.hits
          /\ e \in frame.before /\ e \notin alive
    /\ frame.noops >= 2


\* Every actor's health is between 0 and its maximum.
HealthInRange == \A e \in ActorIds : health[e] >= 0 /\ health[e] <= MaxHealth
\* A step never raises an actor's health, and changes it only together with
\* a damage application to that actor recorded in the step's frame.
HealthStep ==
    \A e \in ActorIds :
        /\ health'[e] <= health[e]
        /\ health'[e] # health[e] => \E h \in frame'.hits : h.target = e

\* C11: after any sequence of frames every actor's health is within
\* 0..maximum (damage beyond the remaining health clamps to 0), and health
\* is changed only by damage application, so it never increases.
C11_HealthInvariant == []HealthInRange /\ [][HealthStep]_vars
C11_Witness ==
    /\ FrameDone
    /\ health[1] = 0 /\ frame.health0[1] = 1
    /\ \E h \in frame.hits : h.target = 1 /\ damage[h.bullet] > 1
    /\ \E e \in EnemyIds : health[e] = 0 /\ frame.health0[e] > 0
                           /\ SumDamage(OverlapB(e)) > frame.health0[e]

\* The answers the vulnerability check gave for the overlapping bullets of
\* this frame's Pass A.
SeenVulnerable == {s \in frame.seen : s.vulnerable}
\* C17 as stated: every overlapping bullet of a frame is gated on the
\* vulnerability value captured once before the loop, so all bullets of one
\* frame see the same value (the value the timer had right after the tick).
C17_CapturedOnce ==
    PassARan => \A s \in frame.seen : s.vulnerable = VulnerableAtLoop
\* C17 amended: the check is evaluated for every overlapping bullet against
\* the timer as it is at that bullet; the first overlapping bullet sees the
\* value after the tick, and once a hit has landed and reset the timer every
\* later bullet of the frame sees the player invulnerable. So at most one
\* bullet per frame sees a vulnerable player, and it is the one whose damage
\* lands.
C17_ReevaluatedPerBullet ==
    PassARan =>
        /\ {s.bullet : s \in frame.seen} = OverlapA
        /\ Cardinality(SeenVulnerable) <= 1
        /\ {s.bullet : s \in SeenVulnerable} = {h.bullet : h \in PlayerHits}
        /\ SeenVulnerable # {} <=> (VulnerableAtLoop /\ OverlapA # {})
        /\ ~VulnerableAtLoop => SeenVulnerable = {}
C17_Witness ==
    /\ PassARan /\ VulnerableAtLoop
    /\ \E s, t \in frame.seen :
          s.bullet # t.bullet /\ s.vulnerable /\ ~t.vulnerable

\* C18 as stated: destruction is immediate. An entity a pass has destroyed is
\* out of the store from then on, and no destroyed entity is tested or reaped
\* again in the frame, so no entity is destroyed twice in one frame.
C18_ImmediateDestruction ==
    \A e \in Ids : /\ commands[e] > 0 => e \notin alive
                   /\ commands[e] <= 1

\* C19: the player's timer is advanced by the frame's delta exactly once per
\* run of Pass A, with or without overlapping bullets, and is set back to the
\* full duration only by a damage application that lands. Between two damage
\* applications to the player at least the full duration has been ticked,
\* and once the duration has been ticked an overlapped player is hit again.
C19_InvulnerabilityWindow ==
    /\ sinceHit = -1 => timer[1] = 0
    /\ sinceHit # -1 => timer[1] = InvulnDuration - sinceHit
    /\ (PassARan /\ frame.sounds = 0) => timer[1] = TimerAfterTick
    /\ (PassARan /\ frame.sounds > 0) =>
          /\ timer[1] = InvulnDuration
          /\ frame.since0 # -1 =>
                /\ frame.gap >= InvulnDuration
                /\ frame.since0 + delta >= InvulnDuration
    /\ (PassARan /\ OverlapA # {} /\ frame.since0 # -1
           /\ frame.since0 + delta >= InvulnDuration) => frame.sounds = 1
C19_Witness ==
    /\ PassARan /\ OverlapA # {}
    /\ frame.timer0[1] > 0 /\ frame.timer0[1] < InvulnDuration
    /\ frame.since0 > 0 /\ frame.gap = InvulnDuration
    /\ frame.sounds = 1 /\ timer[1] = InvulnDuration

\* The extent the reaper uses for an entity on both axes (sprite sheets and
\* scaled plain sprites are square here).
ExtentOf(e) == IF e \in HasSpriteSize THEN SpriteSizeOf(e).width
               ELSE SpriteOf(e).x * ScaleOf(e).x
\* The entity's position is strictly beyond outer bound + margin on a side.
BeyondMargin(e) ==
    LET bx == (WindowWidth + ExtentOf(e)) \div 2 + DespawnMargin
        by == (WindowHeight + ExtentOf(e)) \div 2 + DespawnMargin
    IN pos[e][1] > bx \/ pos[e][1] < -bx \/ pos[e][2] > by \/ pos[e][2] < -by
\* The entity is exactly on the bound of some side and beyond none.
OnMargin(e) ==
    LET bx == (WindowWidth + ExtentOf(e)) \div 2 + DespawnMargin
        by == (WindowHeight + ExtentOf(e)) \div 2 + DespawnMargin
    IN /\ ~BeyondMargin(e)
       /\ pos[e][1] \in {bx, -bx} \/ pos[e][2] \in {by, -by}

\* C13: the reaper destroys an entity carrying the DespawnOutside marker in a
\* frame if and only if its position is strictly beyond outer bound + 12 on
\* some side (an entity exactly on it survives), and it never destroys an
\* entity without the marker, wherever it is.
C13_Reaper ==
    /\ frame.byD \subseteq DespawnOutside
    /\ "D" \in ran =>
          frame.byD = {e \in frame.before \cap DespawnOutside : BeyondMargin(e)}
    /\ ("D" \in ran /\ FrameDone) =>
          /\ frame.byD \cap alive = {}
          /\ \A e \in frame.before \ DespawnOutside : e \in alive
          /\ \A e \in (frame.before \cap DespawnOutside) \ alive :
                e \in frame.byD \cup frame.byA \cup {h.bullet : h \in frame.hits}
C13_Witness ==
    /\ "D" \in ran /\ FrameDone
    /\ \E e, f \in {3, 7} :
          /\ OnMargin(e) /\ e \in alive
          /\ BeyondMargin(f) /\ f \in frame.byD /\ f \notin alive
    /\ BeyondMargin(6) /\ 6 \in alive

\* A coordinate clamped to [-w, w].
Clamped(x, w) == IF x > w THEN w ELSE IF x < -w THEN -w ELSE x
InnerX(e) == (WindowWidth - SpriteSizeOf(e).width) \div 2
InnerY(e) == (WindowHeight - SpriteSizeOf(e).height) \div 2
\* Where bound_player left the players of this frame, and where a Playing
\* frame ends.
Confined ==
    /\ "P" \in ran => "M" \in ran
    /\ "P" \in ran =>
          \A p \in alive \cap PlayerIds :
              pos[p] = <<Clamped(frame.preP[p][1], InnerX(p)),
                         Clamped(frame.preP[p][2], InnerY(p))>>
    /\ (FrameDone /\ frame.state0 = "Playing") =>
          \A p \in alive \cap PlayerIds :
              /\ pos[p][1] >= -InnerX(p) /\ pos[p][1] <= InnerX(p)
              /\ pos[p][2] >= -InnerY(p) /\ pos[p][2] <= InnerY(p)
\* The step of bound_player changes the players' positions and nothing else.
BoundPlayerStep ==
    ("P" \in ran' /\ "P" \notin ran) =>
        /\ UNCHANGED <<alive, damage, health, timer, state, commands, pc, delta,
                       hitCount>>
        /\ \A e \in Ids \ PlayerIds : pos'[e] = pos[e]

\* C12: bound_player leaves each coordinate of every player at its old value
\* clamped to [-inner bound, +inner bound] of its axis (in range unchanged,
\* out of range on the nearest edge, never wrapped); it runs after the
\* movement system, so every Playing frame ends with the player inside the
\* inner bounds; and it changes nothing but the Transform.
C12_Confinement == []Confined /\ [][BoundPlayerStep]_vars
C12_Witness ==
    /\ FrameDone /\ frame.state0 = "Playing" /\ "P" \in ran
    /\ frame.preP[1][1] > InnerX(1) /\ frame.preP[1][2] < -InnerY(1)
    /\ pos[1] = <<InnerX(1), -InnerY(1)>>

\* The outer bound of the window height for a star.
StarBound(e) == (WindowHeight + SpriteOf(e).y * ScaleOf(e).y) \div 2
Wrapped(y, b) == IF y < -b THEN b ELSE y
\* C14: wrap_stars sets the y of a star strictly below the negative outer
\* bound to the positive outer bound and leaves every other y as it is, also
\* one above the positive bound; x is never changed; a second run with no
\* movement in between changes nothing.
C14_BackgroundWrap ==
    "W" \in ran =>
        \A s \in alive \cap StarIds :
            /\ pos[s][1] = frame.preW[s][1]
            /\ pos[s][2] = Wrapped(frame.preW[s][2], StarBound(s))
            /\ Wrapped(pos[s][2], StarBound(s)) = pos[s][2]
            /\ WrapStar(pos[s], s) = pos[s]
C14_Witness ==
    /\ "W" \in ran /\ 9 \in alive
    /\ frame.preW[9][2] < -StarBound(9)
    /\ frame.preW[9][1] # 0
    /\ pos[9] = <<frame.preW[9][1], StarBound(9)>>

\* C15: the overlap test of both passes answers true exactly when the
\* squared distance of the centres is strictly less than the square of the
\* radius sum; circles that touch do not collide; and the answer is the same
\* with the two hitboxes exchanged.
C15_OverlapTest ==
    (probe.op = "overlap" /\ probe.result # <<>>) =>
        LET a == probe.args
            dx == a[1][1] - a[3][1]
            dy == a[1][2] - a[3][2]
            r == a[2] + a[4]
        IN /\ probe.result[1] = (dx * dx + dy * dy < r * r)
           /\ probe.result[2] = probe.result[1]
           /\ dx * dx + dy * dy = r * r => ~probe.result[1]
C15_Witness ==
    /\ probe.op = "overlap" /\ probe.result = <<FALSE, FALSE>>
    /\ probe.args[1] # probe.args[3] /\ probe.args[2] # probe.args[4]
    /\ DistanceSquared(probe.args[1], probe.args[3])
          = (probe.args[2] + probe.args[4]) * (probe.args[2] + probe.args[4])

\* Both identities hold of an applied call of the bound functions. The sum
\* and the difference are f32 operations; they are taken on the values
\* counted in halves, the rounding to 24 bits being the same at either scale.
Halves(r) == r.num * (2 \div r.den)
BoundIdentities ==
    /\ F32(Halves(probe.result[1]) + Halves(probe.result[2])) = 2 * probe.args[1]
    /\ F32(Halves(probe.result[2]) - Halves(probe.result[1])) = 2 * probe.args[2]
\* C16 as stated: for every dimension d >= 0 and extent e >= 0,
\* inner_bound(d,e) + outer_bound(d,e) == d and
\* outer_bound(d,e) - inner_bound(d,e) == e.
C16_BoundIdentities ==
    (probe.op = "bounds" /\ probe.result # <<>>) => BoundIdentities
\* C16 amended: the two identities hold for every d >= 0 and e >= 0 whose sum
\* d + e is computed without rounding, as for all whole numbers with
\* d + e <= 2^24.
C16_BoundIdentitiesExact ==
    (probe.op = "bounds" /\ probe.result # <<>>
        /\ probe.args[1] + probe.args[2] <= F32Exact) => BoundIdentities
C16_Witness ==
    /\ probe.op = "bounds" /\ probe.result # <<>>
    /\ probe.args[2] > 0
    /\ (probe.args[1] + probe.args[2]) % 2 = 1
    /\ probe.result[2].num % 2 = 1 /\ probe.result[2].den = 2
    /\ Halves(probe.result[2]) - Halves(probe.result[1]) = 2 * probe.args[2]

\* What holds in a frame that began in GameOver, and which systems a
\* finished frame has run.
Gated ==
    /\ frame.state0 = "GameOver" =>
          /\ ran \subseteq {"D", "W"}
          /\ frame.hits = {} /\ frame.byA = {} /\ frame.seen = {}
          /\ frame.sets = 0 /\ frame.sounds = 0
          /\ health = frame.health0 /\ timer = frame.timer0
          /\ FrameDone => /\ ran = {"D", "W"}
                          /\ alive = frame.before \ frame.byD
                          /\ frame.byD = {e \in frame.before \cap DespawnOutside :
                                             BeyondMargin(e)}
                          /\ \A s \in alive \cap StarIds :
                                pos[s][2] = Wrapped(frame.preW[s][2], StarBound(s))
    /\ (frame.state0 = "Playing" /\ FrameDone) =>
          ran = {"M", "P", "A", "B", "D", "W"}
\* Once GameOver is the current state no step changes health, timer or
\* hit counts, or touches the game state again.
GatedStep ==
    state.current = "GameOver" =>
        UNCHANGED <<health, timer, hitCount, state, sinceHit>>

\* C20: bound_player and both damage passes run only in Playing frames,
\* despawn_outside and wrap_stars in every frame of every state; once
\* GameOver has taken effect no later frame changes the player's health or
\* timer, destroys a bullet by collision or requests the transition again,
\* while entities beyond the margin are still reaped and stars still wrap.
C20_StateGating == []Gated /\ [][GatedStep]_vars
C20_Witness ==
    /\ frame.state0 = "GameOver" /\ FrameDone
    /\ frame.byD # {} /\ frame.byD \cap alive = {}
    /\ \E b \in alive \cap EnemyBulletIds : Collides(pos[1], Hitbox(1), pos[b], Hitbox(b))
    /\ frame.preW[9][2] < -StarBound(9) /\ pos[9][2] = StarBound(9)
====
